---- MODULE Spec2Model ----
(***************************************************************************)
(* Runtime type identity of src/rtti/variadic-definition.cpp: descriptors  *)
(* (class RTTI) holding a name and an ordered list of parent addresses,    *)
(* the ancestry query RTTI::derivesFrom, and the static binding layer      *)
(* (RTTI_DECLARE / RTTI_DEFINE).                                           *)
(*                                                                         *)
(* A descriptor is identified by its address, modelled as a natural        *)
(* number.  m_parents and m_className are functions whose domain is the    *)
(* set of descriptors whose constructor has run.                           *)
(***************************************************************************)
EXTENDS Naturals, Sequences, FiniteSets, TLC

VARIABLES m_className, m_parents, pc, lastCall, objects, thr

vars == <<m_className, m_parents, pc, lastCall, objects, thr>>

(***************************************************************************)
(* Bounds of the model.                                                    *)
(***************************************************************************)
MaxDescriptors == 4
MaxParents == 2
\* Descriptors in the specification that runs derivesFrom call by call.
MaxTraversed == 3
\* Instances created by new in the static binding layer.
MaxObjects == 2
\* Threads that query the descriptors once they are all initialised.
NumThreads == 2

\* The name handed to the RTTI constructor in the classless mode.  Every
\* descriptor gets the same one: descriptors are told apart by address only.
ClassNames == {"Vehicle"}

(***************************************************************************)
(* class RTTI                                                              *)
(***************************************************************************)
\* The descriptors whose constructor has run.
Constructed == DOMAIN m_parents

\* RTTI::getClassName: the stored pointer, verbatim.
getClassName(self) == m_className[self]

RECURSIVE derivesFrom(_, _)
RECURSIVE anyParentDerives(_, _, _)

\* Mutant: the identity test of line 26 is missing.
derivesFromNoIdentity(self, r) == anyParentDerives(self, r, 1)

\* Mutant: the identity test compares the class names, not the addresses.
derivesFromByName(self, r) ==
    IF m_className[self] = m_className[r] THEN TRUE ELSE anyParentDerives(self, r, 1)

\* Mutant: the recursive call passes the parent itself instead of r, so any
\* descriptor with a parent "derives from" everything.
derivesFromWrongArgument(self, r) ==
    IF self = r THEN TRUE ELSE Len(m_parents[self]) > 0

\* RTTI::derivesFrom, lines 24-40: identity first, then the parents in
\* declaration order, stopping at the first one that answers true.
derivesFrom(self, r) ==
    IF self = r THEN TRUE ELSE anyParentDerives(self, r, 1)

\* Mutant: the loop returns the answer of the first parent whatever it is.
anyParentDerivesFirstOnly(self, r, i) ==
    IF i > Len(m_parents[self]) THEN FALSE ELSE derivesFrom(m_parents[self][i], r)

\* The for loop of lines 31-37, from the i-th parent on, and line 39.
anyParentDerives(self, r, i) ==
    IF i > Len(m_parents[self])
    THEN FALSE
    ELSE IF derivesFrom(m_parents[self][i], r)
         THEN TRUE
         ELSE anyParentDerives(self, r, i + 1)

(***************************************************************************)
(* Classless mode: descriptors constructed one after another, each from    *)
(* the addresses of descriptors that already exist (lines 140-144).        *)
(***************************************************************************)
\* The address the next descriptor gets.
NextAddress == Cardinality(Constructed) + 1

\* Mutant: the constructor may be handed the address of the descriptor under
\* construction (const RTTI x("X", {&x})).
ParentChoicesWithSelf == Constructed \cup {NextAddress}

\* The addresses a parent list is written from: the descriptors declared
\* before the one under construction.
ParentChoices == Constructed

\* Parent lists of at most MaxParents entries over the existing descriptors.
ParentLists == UNION {[1..n -> ParentChoices] : n \in 0..MaxParents}

\* Parent lists that name no descriptor twice.
DistinctParentLists ==
    {ps \in ParentLists : \A i, j \in DOMAIN ps : ps[i] = ps[j] => i = j}

NoCall ==
    [op |-> "none", self |-> 0, r |-> 0, result |-> FALSE, name |-> "", object |-> 0]

\* RTTI::RTTI, lines 14-17: stores the name and a copy of the parent list.
Construct(className, parents) ==
    /\ pc = "classless"
    /\ lastCall = NoCall
    /\ \A t \in DOMAIN thr : thr[t].status = "idle"
    /\ m_className' = (NextAddress :> className) @@ m_className
    /\ m_parents' = (NextAddress :> parents) @@ m_parents
    /\ UNCHANGED <<pc, lastCall, objects, thr>>

\* The caller evaluates a.derivesFrom(b) on two descriptors it holds.
Query(a, b) ==
    /\ pc = "classless"
    /\ lastCall = NoCall
    /\ lastCall' = [op |-> "derivesFrom", self |-> a, r |-> b,
                    result |-> derivesFrom(a, b), name |-> "", object |-> 0]
    /\ UNCHANGED <<m_className, m_parents, pc, objects, thr>>

\* The caller evaluates a.getClassName().
NameQuery(a) ==
    /\ pc = "classless"
    /\ lastCall = NoCall
    /\ lastCall' = [op |-> "getClassName", self |-> a, r |-> a,
                    result |-> FALSE, name |-> getClassName(a), object |-> 0]
    /\ UNCHANGED <<m_className, m_parents, pc, objects, thr>>

\* The caller has used the value of the call (the assert of lines 147-165
\* passed or the value was dropped) and goes on.
Continue ==
    /\ pc = "classless"
    /\ lastCall # NoCall
    /\ lastCall' = NoCall
    /\ UNCHANGED <<m_className, m_parents, pc, objects, thr>>

Init ==
    /\ m_className = <<>>
    /\ m_parents = <<>>
    /\ pc = "classless"
    /\ lastCall = NoCall
    /\ objects = <<>>
    /\ thr = <<>>

Next ==
    \/ \E className \in ClassNames, parents \in DistinctParentLists :
          /\ Cardinality(Constructed) < MaxDescriptors
          /\ Construct(className, parents)
    \/ \E a, b \in Constructed : Query(a, b)
    \/ \E a \in Constructed : NameQuery(a)
    \/ Continue

Spec == Init /\ [][Next]_vars

(***************************************************************************)
(* Reachability in the parent graph, computed from the edge set alone.     *)
(***************************************************************************)
\* The direct parents of d, as a set.
Parents(d) ==
    IF d \in Constructed THEN {m_parents[d][i] : i \in DOMAIN m_parents[d]} ELSE {}

RECURSIVE ReachableFrom(_)
\* The least set that contains S and is closed under Parents.
ReachableFrom(S) ==
    LET T == S \cup UNION {Parents(d) : d \in S}
    IN IF T = S THEN S ELSE ReachableFrom(T)

\* Reachable by zero or more parent edges.
Ancestors(a) == ReachableFrom({a})

\* Reachable by one or more parent edges.
ProperAncestors(a) == ReachableFrom(Parents(a))

\* lastCall is a derivesFrom call.
IsQuery == lastCall.op = "derivesFrom"

\* C1: whenever A.derivesFrom(B) has been evaluated on two constructed
\* descriptors, it answered true exactly when B is reachable from A by zero or
\* more parent edges.
C1_DerivesFromIsReachability ==
    IsQuery => (lastCall.result <=> lastCall.r \in Ancestors(lastCall.self))

\* C1 witness: a query from the leaf of a diamond to its root answered true:
\* two distinct parents, neither of them the target, both reach the target.
C1_Witness ==
    /\ IsQuery
    /\ lastCall.result
    /\ \E p, q \in Parents(lastCall.self) :
          /\ p # q
          /\ lastCall.r \notin {p, q, lastCall.self}
          /\ lastCall.r \in Ancestors(p) \cap Ancestors(q)

\* C2 as claimed: a query between two distinct descriptors that list a common
\* direct parent answers false, whichever of the two is asked.
C2_SiblingsNeverDerive ==
    (/\ IsQuery
     /\ lastCall.self # lastCall.r
     /\ Parents(lastCall.self) \cap Parents(lastCall.r) # {})
        => ~lastCall.result

\* C2 amended: a query between two distinct descriptors with the same,
\* non-empty set of direct parents answers false, whichever of the two is asked.
C2_SameParentsNeverDerive ==
    (/\ IsQuery
     /\ lastCall.self # lastCall.r
     /\ Parents(lastCall.self) # {}
     /\ Parents(lastCall.self) = Parents(lastCall.r))
        => ~lastCall.result

\* C2 witness: a cross-cast query between two such siblings answered false.
C2_Witness ==
    /\ IsQuery
    /\ lastCall.self # lastCall.r
    /\ Parents(lastCall.self) # {}
    /\ Parents(lastCall.self) = Parents(lastCall.r)
    /\ ~lastCall.result

\* C3: a query between two descriptors whose ancestor sets (each descriptor
\* counted among its own ancestors, as the ancestry query counts it) are
\* disjoint answers false, whichever of the two is asked.
C3_DisjointAncestorsNeverDerive ==
    (/\ IsQuery
     /\ Ancestors(lastCall.self) \cap Ancestors(lastCall.r) = {})
        => ~lastCall.result

\* C3 witness: a query between two unrelated descriptors, each with a parent,
\* answered false.
C3_Witness ==
    /\ IsQuery
    /\ Parents(lastCall.self) # {}
    /\ Parents(lastCall.r) # {}
    /\ Ancestors(lastCall.self) \cap Ancestors(lastCall.r) = {}
    /\ ~lastCall.result

\* C4: when A.derivesFrom(B) answered true for distinct A and B,
\* B.derivesFrom(A) is false.
C4_Antisymmetric ==
    (IsQuery /\ lastCall.self # lastCall.r /\ lastCall.result)
        => ~derivesFrom(lastCall.r, lastCall.self)

\* C4 witness: a two-level upcast answered true.
C4_Witness ==
    /\ IsQuery
    /\ lastCall.result
    /\ lastCall.r \in ProperAncestors(lastCall.self) \ Parents(lastCall.self)

\* C5: no descriptor is reachable from itself by one or more parent edges.
C5_Acyclic ==
    \A d \in Constructed : d \notin ProperAncestors(d)

\* C5 witness: a diamond has been constructed (two paths reconverge).
C5_Witness ==
    \E d \in Constructed : \E p, q \in Parents(d) :
        /\ p # q
        /\ ProperAncestors(p) \cap ProperAncestors(q) # {}

(***************************************************************************)
(* The memoized traversal the design notes allow: one visited set per      *)
(* query call, a descriptor already in it is not expanded again.           *)
(***************************************************************************)
RECURSIVE memoVisit(_, _, _)
RECURSIVE memoParents(_, _, _, _)

\* One call on self with the set of descriptors already expanded; answers
\* whether r was found and the visited set as it leaves it.
memoVisit(self, r, visited) ==
    IF self = r
    THEN [found |-> TRUE, visited |-> visited]
    ELSE IF self \in visited
         THEN [found |-> FALSE, visited |-> visited]
         ELSE memoParents(self, r, 1, visited \cup {self})

\* The parents of self from the i-th on, in declaration order, short-circuit.
memoParents(self, r, i, visited) ==
    IF i > Len(m_parents[self])
    THEN [found |-> FALSE, visited |-> visited]
    ELSE LET res == memoVisit(m_parents[self][i], r, visited)
         IN IF res.found THEN res ELSE memoParents(self, r, i + 1, res.visited)

\* The memoized query.
memoDerivesFrom(self, r) == memoVisit(self, r, {}).found

\* C10: the memoized traversal answers every query as derivesFrom does.
C10_MemoizedAgrees ==
    IsQuery => (memoDerivesFrom(lastCall.self, lastCall.r) = lastCall.result)

\* C10 witness: a query answered false from a descriptor two of whose parent
\* paths reconverge, where the reference traversal reaches the shared
\* ancestor once per path and the memoized one expands it once.
C10_Witness ==
    /\ IsQuery
    /\ ~lastCall.result
    /\ \E p, q \in Parents(lastCall.self) :
          /\ p # q
          /\ Ancestors(p) \cap Ancestors(q) # {}

(***************************************************************************)
(* RTTI::derivesFrom call by call.  A caller t holds the chain of          *)
(* activations of derivesFrom it is in: stack[k].self is the descriptor    *)
(* the k-th activation runs on, stack[k].i the position of its loop        *)
(* iterator.  The identity test of line 26 compares two addresses and      *)
(* reads no descriptor, so it is taken in the step that makes the call.    *)
(***************************************************************************)
Idle ==
    [status |-> "idle", op |-> "none", self |-> 0, r |-> 0, stack |-> <<>>,
     visits |-> 0, result |-> FALSE, name |-> ""]

\* The activation on top of q's stack.
Top(q) == q.stack[Len(q.stack)]

\* q with the activation on top of its stack at loop position i.
WithTopAt(q, i) == [q EXCEPT !.stack[Len(q.stack)].i = i]

\* Mutant: line 35 is missing, the caller goes on with its next parent.
ReturnTrueIgnored(q) ==
    IF q.stack = <<>>
    THEN [q EXCEPT !.status = "done", !.result = TRUE]
    ELSE WithTopAt(q, Top(q).i + 1)

\* Line 28 answers true; every caller up the chain sees true at line 33 and
\* answers true at line 35, so the whole query answers true.
ReturnTrue(q) == [q EXCEPT !.stack = <<>>, !.status = "done", !.result = TRUE]

\* Mutant: the iterator is not advanced after a parent answered false.
NextIndexStuck(i) == i

\* ++i of line 31.
NextIndex(i) == i + 1

\* Line 39 answers false: the activation ends; its caller, if any, sees false
\* at line 33 and advances its iterator; with no caller the query answers false.
ReturnFalse(q) ==
    IF Len(q.stack) = 1
    THEN [q EXCEPT !.stack = <<>>, !.status = "done", !.result = FALSE]
    ELSE LET rest == [q EXCEPT !.stack = SubSeq(q.stack, 1, Len(q.stack) - 1)]
         IN WithTopAt(rest, NextIndex(Top(rest).i))

\* A new activation of derivesFrom on descriptor d, lines 24-31: answer true
\* if d is the target, else start the loop at the first parent.
Activate(q, d) ==
    LET v == [q EXCEPT !.visits = @ + 1]
    IN IF d = v.r
       THEN ReturnTrue(v)
       ELSE [v EXCEPT !.stack = Append(@, [self |-> d, i |-> 1])]

\* Caller t calls a.derivesFrom(b).
Call(t, a, b) ==
    /\ thr[t].status = "idle"
    /\ thr' = [thr EXCEPT ![t] =
                  Activate([Idle EXCEPT !.status = "running", !.op = "derivesFrom",
                                        !.self = a, !.r = b], a)]
    /\ UNCHANGED <<m_className, m_parents, pc, lastCall, objects>>

\* Lines 31-39 of the innermost activation: read the parent under the
\* iterator and call it, or leave the loop and answer false.
Loop(t) ==
    /\ thr[t].status = "running"
    /\ LET q == thr[t]
           parents == m_parents[Top(q).self]
       IN thr' = [thr EXCEPT ![t] =
                     IF Top(q).i <= Len(parents)
                     THEN Activate(q, parents[Top(q).i])
                     ELSE ReturnFalse(q)]
    /\ UNCHANGED <<m_className, m_parents, pc, lastCall, objects>>

\* Caller t calls a.getClassName(), lines 19-22.
CallName(t, a) ==
    /\ thr[t].status = "idle"
    /\ thr' = [thr EXCEPT ![t] =
                  [Idle EXCEPT !.status = "done", !.op = "getClassName",
                               !.self = a, !.r = a, !.name = m_className[a]]]
    /\ UNCHANGED <<m_className, m_parents, pc, lastCall, objects>>

\* Caller t has used the value of its call and is free for the next one.
Return(t) ==
    /\ thr[t].status = "done"
    /\ thr' = [thr EXCEPT ![t] = Idle]
    /\ UNCHANGED <<m_className, m_parents, pc, lastCall, objects>>

(***************************************************************************)
(* One caller, descriptors constructed with any parent lists (repeated     *)
(* entries included), each query run call by call.                         *)
(***************************************************************************)
InitTraversal ==
    /\ m_className = <<>>
    /\ m_parents = <<>>
    /\ pc = "classless"
    /\ lastCall = NoCall
    /\ objects = <<>>
    /\ thr = <<Idle>>

NextTraversal ==
    \/ \E className \in ClassNames, parents \in ParentLists :
          /\ Cardinality(Constructed) < MaxTraversed
          /\ Construct(className, parents)
    \/ \E a, b \in Constructed : Call(1, a, b)
    \/ \E a \in Constructed : CallName(1, a)
    \/ Loop(1)
    \/ Return(1)

SpecTraversal == InitTraversal /\ [][NextTraversal]_vars

\* A call that has begun runs on: the caller is a running thread of control.
FairSpecTraversal == SpecTraversal /\ WF_vars(Loop(1))

RECURSIVE NumPaths(_)
RECURSIVE NumPathsFrom(_, _)
\* The number of parent-edge paths that start at d, the empty path included;
\* an edge is one entry of a parent list.
NumPaths(d) == 1 + NumPathsFrom(d, 1)

\* The paths that start with the i-th or a later entry of d's parent list.
NumPathsFrom(d, i) ==
    IF i > Len(m_parents[d])
    THEN 0
    ELSE NumPaths(m_parents[d][i]) + NumPathsFrom(d, i + 1)

\* The states of a caller: never one that stands for an error.
C8_NoErrorState ==
    \A t \in DOMAIN thr :
        /\ thr[t].status \in {"idle", "running", "done"}
        /\ thr[t].result \in BOOLEAN
        /\ thr[t].status = "done" => thr[t].stack = <<>>

\* The visits of a query stay within the paths from the queried descriptor.
C8_VisitsBounded ==
    \A t \in DOMAIN thr :
        thr[t].op = "derivesFrom" => thr[t].visits <= NumPaths(thr[t].self)

\* C8: every derivesFrom query ends, with one boolean and in no error state,
\* after at most as many descriptor visits as there are parent-edge paths
\* from the queried descriptor.
C8_TerminatesWithinPaths ==
    /\ [](C8_NoErrorState /\ C8_VisitsBounded)
    /\ \A t \in {1} : (thr[t].status = "running") ~> (thr[t].status = "done")

\* C8 witness: a finished query that visited as many descriptors as there are
\* paths, on a descriptor with a repeated visit of a shared ancestor.
C8_Witness ==
    /\ thr[1].status = "done"
    /\ thr[1].op = "derivesFrom"
    /\ ~thr[1].result
    /\ thr[1].visits = NumPaths(thr[1].self)
    /\ thr[1].visits > Cardinality(Ancestors(thr[1].self))

(***************************************************************************)
(* The static binding layer, lines 50-100.  The address of X::typeInfo is  *)
(* fixed by the class, whether or not its initialiser has run.             *)
(***************************************************************************)
StaffMember == 1
Librarian == 2
Teacher == 3
TeachingLibrarian == 4
Sailboat == 5

Classes == {StaffMember, Librarian, Teacher, TeachingLibrarian, Sailboat}

\* The direct base classes of each class, lines 71-94.
BaseClasses ==
    (StaffMember :> {}) @@ (Librarian :> {StaffMember}) @@ (Teacher :> {StaffMember})
    @@ (TeachingLibrarian :> {Teacher, Librarian}) @@ (Sailboat :> {})

\* #ThisClass of each RTTI_DEFINE, line 66.
DefinedName ==
    (StaffMember :> "StaffMember") @@ (Librarian :> "Librarian")
    @@ (Teacher :> "Teacher") @@ (TeachingLibrarian :> "TeachingLibrarian")
    @@ (Sailboat :> "Sailboat")

\* { &Parents::typeInfo... } of each RTTI_DEFINE, lines 54 and 96-100.
DefinedParents ==
    (StaffMember :> <<>>) @@ (Librarian :> <<StaffMember>>)
    @@ (Teacher :> <<StaffMember>>)
    @@ (TeachingLibrarian :> <<Teacher, Librarian>>) @@ (Sailboat :> <<>>)

\* Mutant: TeachingLibrarian is defined before its parent Teacher.
DefinitionOrderChildFirst ==
    <<StaffMember, Librarian, TeachingLibrarian, Teacher, Sailboat>>

\* The RTTI_DEFINE lines in the order they stand in the translation unit,
\* the order their initialisers run in.
DefinitionOrder == <<StaffMember, Librarian, Teacher, TeachingLibrarian, Sailboat>>

\* The initialiser of the next RTTI_DEFINE runs: RTTIInfo builds the parent
\* list from the addresses of the parents' typeInfo, and typeInfo is
\* copy-constructed from it.  After the last one main starts.
StaticInit ==
    /\ pc = "static_init"
    /\ LET k == Cardinality(Constructed) + 1
           c == DefinitionOrder[k]
       IN /\ m_className' = (c :> DefinedName[c]) @@ m_className
          /\ m_parents' = (c :> DefinedParents[c]) @@ m_parents
          /\ pc' = IF k = Len(DefinitionOrder) THEN "main" ELSE "static_init"
    /\ UNCHANGED <<lastCall, objects, thr>>

RECURSIVE BasesOf(_)
\* The class and all its direct and indirect base classes.
BasesOf(c) == {c} \cup UNION {BasesOf(b) : b \in BaseClasses[c]}

\* The pointer types a new-expression of class c can be assigned to.
PointerTypes(c) == BasesOf(c)

\* new Class() stored in a pointer to Class or to one of its bases,
\* lines 105-109.
New(class, pointer) ==
    /\ pc = "main"
    /\ lastCall = NoCall
    /\ Len(objects) < MaxObjects
    /\ objects' = Append(objects, [dynamic |-> class, pointer |-> pointer])
    /\ UNCHANGED <<m_className, m_parents, pc, lastCall, thr>>

\* Mutant: getTypeInfo is not virtual, the call is bound by the pointer's type.
StaticallyBound(o) == o.pointer

\* The class whose getTypeInfo a call through a pointer runs: the function is
\* virtual and every class overrides it (RTTI_DECLARE), so it is the one of
\* the object's own class.
FinalOverrider(o) == o.dynamic

\* getTypeInfo, line 63: the typeInfo of the class whose override runs.
getTypeInfo(o) == FinalOverrider(o)

\* x->getTypeInfo().derivesFrom(y->getTypeInfo()), lines 115-133.
ObjectQuery(x, y) ==
    /\ pc = "main"
    /\ lastCall = NoCall
    /\ lastCall' = [op |-> "derivesFrom", self |-> getTypeInfo(objects[x]),
                    r |-> getTypeInfo(objects[y]),
                    result |-> derivesFrom(getTypeInfo(objects[x]),
                                           getTypeInfo(objects[y])),
                    name |-> "", object |-> x]
    /\ UNCHANGED <<m_className, m_parents, pc, objects, thr>>

\* x->getTypeInfo().derivesFrom(Class::typeInfo), line 118.
StaticMemberQuery(x, class) ==
    /\ pc = "main"
    /\ lastCall = NoCall
    /\ lastCall' = [op |-> "derivesFrom", self |-> getTypeInfo(objects[x]),
                    r |-> class,
                    result |-> derivesFrom(getTypeInfo(objects[x]), class),
                    name |-> "", object |-> x]
    /\ UNCHANGED <<m_className, m_parents, pc, objects, thr>>

\* x->getTypeInfo().getClassName(), line 112.
ObjectNameQuery(x) ==
    /\ pc = "main"
    /\ lastCall = NoCall
    /\ lastCall' = [op |-> "getClassName", self |-> getTypeInfo(objects[x]),
                    r |-> getTypeInfo(objects[x]), result |-> FALSE,
                    name |-> getClassName(getTypeInfo(objects[x])), object |-> x]
    /\ UNCHANGED <<m_className, m_parents, pc, objects, thr>>

\* The assert on the value of the call passed; the test goes on.
ContinueMain ==
    /\ pc = "main"
    /\ lastCall # NoCall
    /\ lastCall' = NoCall
    /\ UNCHANGED <<m_className, m_parents, pc, objects, thr>>

InitStatic ==
    /\ m_className = <<>>
    /\ m_parents = <<>>
    /\ pc = "static_init"
    /\ lastCall = NoCall
    /\ objects = <<>>
    /\ thr = <<>>

NextStatic ==
    \/ StaticInit
    \/ \E class \in Classes : \E pointer \in PointerTypes(class) : New(class, pointer)
    \/ \E x, y \in DOMAIN objects : ObjectQuery(x, y)
    \/ \E x \in DOMAIN objects, class \in Classes : StaticMemberQuery(x, class)
    \/ \E x \in DOMAIN objects : ObjectNameQuery(x)
    \/ ContinueMain

SpecStatic == InitStatic /\ [][NextStatic]_vars

\* C6: a descriptor is initialised only once all descriptors of its parent
\* list are, and nothing is queried or instantiated before all are.
C6_ParentsInitialisedFirst ==
    /\ \A d \in Constructed : Parents(d) \subseteq Constructed
    /\ (lastCall # NoCall \/ objects # <<>> \/ pc # "static_init")
          => Constructed = Classes

\* C6 witness: all initialisers have run and a query on the descriptor with
\* two parents, TeachingLibrarian, has been answered.
C6_Witness ==
    /\ Constructed = Classes
    /\ IsQuery
    /\ lastCall.self = TeachingLibrarian
    /\ lastCall.r = StaffMember
    /\ lastCall.result

\* What each instance reports is the descriptor of its own class.
C7_ReportsMostDerived ==
    /\ \A x \in DOMAIN objects : getTypeInfo(objects[x]) = objects[x].dynamic
    /\ lastCall.object # 0 => lastCall.self = objects[lastCall.object].dynamic

\* No step changes what an existing instance reports.
C7_ReportStays ==
    \A x \in DOMAIN objects : getTypeInfo(objects[x])' = getTypeInfo(objects[x])

Threads == 1..NumThreads

InitThreads ==
    /\ m_className = <<>>
    /\ m_parents = <<>>
    /\ pc = "static_init"
    /\ lastCall = NoCall
    /\ objects = <<>>
    /\ thr = [t \in Threads |-> Idle]

NextThreads ==
    \/ StaticInit
    \/ \E t \in Threads : \E a, b \in Constructed : pc = "main" /\ Call(t, a, b)
    \/ \E t \in Threads : \E a \in Constructed : pc = "main" /\ CallName(t, a)
    \/ \E t \in Threads : Loop(t)
    \/ \E t \in Threads : Return(t)

SpecThreads == InitThreads /\ [][NextThreads]_vars

\* Every finished call has the value the same call gives when it runs alone.
C9_ResultAsAlone ==
    \A t \in DOMAIN thr :
        thr[t].status = "done" =>
            /\ thr[t].op = "derivesFrom" =>
                  thr[t].result = derivesFrom(thr[t].self, thr[t].r)
            /\ thr[t].op = "getClassName" =>
                  thr[t].name = getClassName(thr[t].self)

\* Once the initialisers have run, no step changes a name or a parent list.
C9_DescriptorsFrozen ==
    pc = "main" => (m_className' = m_className /\ m_parents' = m_parents)

\* C9: after construction, interleaved derivesFrom and getClassName calls of
\* several threads leave every name and parent list unchanged and each call
\* gets the value it gets when run alone.
C9_ConcurrentQueriesSafe == []C9_ResultAsAlone /\ [][C9_DescriptorsFrozen]_vars

\* C9 witness: one thread finished a two-level upcast with true while
\* another is in the middle of a query on the same descriptor.
C9_Witness ==
    \E t, u \in DOMAIN thr :
        /\ t # u
        /\ thr[t].status = "done"
        /\ thr[t].op = "derivesFrom"
        /\ thr[t].self = TeachingLibrarian
        /\ thr[t].r = StaffMember
        /\ thr[t].result
        /\ thr[u].status = "running"
        /\ thr[u].self = TeachingLibrarian
        /\ Len(thr[u].stack) > 1

====
